---- MODULE Spec2Model ----
(***************************************************************************)
(* Sparse-matrix preorderings of minilp (src/src/ordering.rs):             *)
(* order_simple, order_colamd, find_diag_matching, find_block_diag_form    *)
(* and the bucket priority queue ColsQueue they use.                       *)
(*                                                                         *)
(* Rust vectors indexed from 0 are functions on 0..n-1; vectors that are   *)
(* pushed to and iterated are sequences of 0-based indices.  A panic       *)
(* (index out of bounds, unwrap of None, usize underflow) ends the run in  *)
(* pc = "panic".                                                           *)
(***************************************************************************)
EXTENDS Integers, Sequences, FiniteSets, TLC

\* Largest matrix dimension of the enumerated input patterns.
MaxSize == 3

\* Largest matrix dimension of the patterns given to order_colamd: a column
\* returns to the queue with a new score from dimension 4 on.
MaxColamdSize == 4

\* Option<usize>::None (score2head entries, pop_min's result).
None == -1

\* std::cmp::max(16, ns_size / 4): the least length of a dense row.
DenseRowMin == 16

\* std::cmp::max(16, sqrt(ns_size)): the least length of a dense column.
DenseColMin == 16

\* SENTINEL = 0usize.wrapping_sub(1): a value that is no index of any vector.
SENTINEL == -2

VARIABLES
    size,                \* the `size` argument
    get_col,             \* the `get_col` argument: column -> sequence of rows
    pc,                  \* position in the running function
    \* order_simple, order_colamd
    cols_queue,          \* ColsQueue
    new2orig, orig2new,  \* Perm under construction
    \* order_colamd
    rows, cols,          \* rows[r].cols, cols[c].rows (find_block_diag_form: rows)
    cur_ordered_col, is_ordered_col, is_absorbed_row,
    col_scores, pivot_c, pivot_row, pivot_r,
    row_set_diffs, rows_with_diffs, is_in_diffs,
    num_iters,           \* iterations of the elimination loop started so far
    panic_line,          \* source line of the panic that ended order_colamd, or 0
    \* find_diag_matching
    col2visited_on_iter, row2matched_col, cheap, start_c, found,
    matching,            \* value returned by find_diag_matching
    \* find_block_diag_form
    row2col, visited, is_visited, block_cols,
    \* a caller of ColsQueue on its own
    q_keys,              \* the caller's record: queued keys and scores, oldest first
    q_last               \* the last ColsQueue call and what it returned

inputVars  == <<size, get_col>>
permVars   == <<cols_queue, new2orig, orig2new>>
colamdRest == <<cols, cur_ordered_col, is_ordered_col, is_absorbed_row,
                col_scores, pivot_c, pivot_row, pivot_r, row_set_diffs,
                rows_with_diffs, is_in_diffs, num_iters, panic_line>>
colamdVars == <<rows, colamdRest>>
matchVars  == <<col2visited_on_iter, row2matched_col, cheap, start_c, found, matching>>
blockVars  == <<row2col, visited, is_visited, block_cols>>
queueVars  == <<q_keys, q_last>>

vars == <<inputVars, pc, permVars, colamdVars, matchVars, blockVars, queueVars>>

Min(a, b) == IF a < b THEN a ELSE b
Max(a, b) == IF a > b THEN a ELSE b

Idx(n) == 0 .. (n - 1)

\* vec![v; n]
Vec(n, v) == [k \in Idx(n) |-> v]

(***************************************************************************)
(* Input patterns: every size in 0..MaxSize and, per column, every set of  *)
(* rows of [0, size), listed in ascending order as compressed-column       *)
(* storage does.                                                           *)
(***************************************************************************)
RECURSIVE SortedSeq(_)
SortedSeq(S) ==
    IF S = {} THEN <<>>
    ELSE LET m == CHOOSE x \in S : \A y \in S : x <= y
         IN <<m>> \o SortedSeq(S \ {m})

Patterns(n) ==
    { [c \in Idx(n) |-> SortedSeq(p[c])] : p \in [Idx(n) -> SUBSET Idx(n)] }

SeqToSet(s) == { s[k] : k \in 1 .. Len(s) }

(***************************************************************************)
(* ColsQueue                                                               *)
(***************************************************************************)
ColsQueue_new(num_cols) ==
    [ score2head |-> Vec(num_cols, None),
      prev       |-> Vec(num_cols, 0),
      next       |-> Vec(num_cols, 0),
      min_score  |-> num_cols,
      len        |-> 0 ]

\* add that forgets to lower min_score.
ColsQueue_add_keeps_min_score(q, col, score) ==
    LET head == q.score2head[score]
        q1   == [q EXCEPT !.len = q.len + 1]
    IN IF head # None
       THEN LET p1 == [q.prev EXCEPT ![col] = q.prev[head]]
                n1 == [q.next EXCEPT ![col] = head]
                n2 == [n1 EXCEPT ![p1[head]] = col]
                p2 == [p1 EXCEPT ![head] = col]
            IN [q1 EXCEPT !.prev = p2, !.next = n2]
       ELSE [q1 EXCEPT !.prev = [q.prev EXCEPT ![col] = col],
                       !.next = [q.next EXCEPT ![col] = col],
                       !.score2head = [q.score2head EXCEPT ![score] = col]]

\* add indexes score2head[score]: out of bounds when score >= num_cols.
ColsQueue_add_panics(q, col, score) == score \notin DOMAIN q.score2head

ColsQueue_add(q, col, score) ==
    LET head == q.score2head[score]
        q1   == [q EXCEPT !.min_score = Min(q.min_score, score), !.len = q.len + 1]
    IN IF head # None
       THEN LET p1 == [q.prev EXCEPT ![col] = q.prev[head]]
                n1 == [q.next EXCEPT ![col] = head]
                n2 == [n1 EXCEPT ![p1[head]] = col]
                p2 == [p1 EXCEPT ![head] = col]
            IN [q1 EXCEPT !.prev = p2, !.next = n2]
       ELSE [q1 EXCEPT !.prev = [q.prev EXCEPT ![col] = col],
                       !.next = [q.next EXCEPT ![col] = col],
                       !.score2head = [q.score2head EXCEPT ![score] = col]]

\* remove that leaves the bucket head in place when the head is unlinked.
ColsQueue_remove_keeps_head(q, col, score) ==
    LET q1 == [q EXCEPT !.len = q.len - 1]
    IN IF q.next[col] = col
       THEN [q1 EXCEPT !.score2head = [q.score2head EXCEPT ![score] = None]]
       ELSE LET n1 == [q.next EXCEPT ![q.prev[col]] = q.next[col]]
                p1 == [q.prev EXCEPT ![n1[col]] = q.prev[col]]
            IN [q1 EXCEPT !.next = n1, !.prev = p1]

\* remove underflows len, indexes score2head[score] and unwraps the head.
ColsQueue_remove_panics(q, col, score) ==
    \/ q.len = 0
    \/ score \notin DOMAIN q.score2head
    \/ q.next[col] # col /\ q.score2head[score] = None

ColsQueue_remove(q, col, score) ==
    LET q1 == [q EXCEPT !.len = q.len - 1]
    IN IF q.next[col] = col
       THEN [q1 EXCEPT !.score2head = [q.score2head EXCEPT ![score] = None]]
       ELSE LET n1 == [q.next EXCEPT ![q.prev[col]] = q.next[col]]
                p1 == [q.prev EXCEPT ![n1[col]] = q.prev[col]]
                h1 == IF q.score2head[score] = col
                      THEN [q.score2head EXCEPT ![score] = n1[col]]
                      ELSE q.score2head
            IN [q1 EXCEPT !.next = n1, !.prev = p1, !.score2head = h1]

\* score2head.len()
NumScores(q) == Cardinality(DOMAIN q.score2head)

\* A scan that never looks at the bucket it starts from.
RECURSIVE ColsQueue_scan_skips_first(_, _)
ColsQueue_scan_skips_first(q, s) ==
    IF s + 1 >= NumScores(q) THEN NumScores(q)
    ELSE IF q.score2head[s + 1] # None THEN s + 1
    ELSE ColsQueue_scan_skips_first(q, s + 1)

\* The loop of pop_min: advance min_score to the first non-empty bucket.
RECURSIVE ColsQueue_scan(_, _)
ColsQueue_scan(q, s) ==
    IF s >= NumScores(q) THEN s
    ELSE IF q.score2head[s] # None THEN s
    ELSE ColsQueue_scan(q, s + 1)

\* pop_min: [queue, col], col = None when the queue holds nothing.
ColsQueue_pop_min(q) ==
    LET s  == ColsQueue_scan(q, q.min_score)
        q1 == [q EXCEPT !.min_score = s]
    IN IF s >= NumScores(q)
       THEN [queue |-> q1, col |-> None, panic |-> FALSE]
       ELSE IF ColsQueue_remove_panics(q1, q.score2head[s], s)
       THEN [queue |-> q1, col |-> None, panic |-> TRUE]
       ELSE [queue |-> ColsQueue_remove(q1, q.score2head[s], s),
             col   |-> q.score2head[s], panic |-> FALSE]

(***************************************************************************)
(* State shared by the four functions                                      *)
(***************************************************************************)
VecLen(v) == Cardinality(DOMAIN v)

\* Vec::push on an index-addressed vector
VecPush(v, x) == [k \in 0 .. VecLen(v) |-> IF k \in DOMAIN v THEN v[k] ELSE x]

\* let mut orig2new = vec![0; size];
\* for (new, &orig) in new2orig.iter().enumerate() { orig2new[orig] = new; }
RECURSIVE InvertFrom(_, _, _)
InvertFrom(n2o, new, o2n) ==
    IF new >= VecLen(n2o) THEN o2n
    ELSE InvertFrom(n2o, new + 1, [o2n EXCEPT ![n2o[new]] = new])

Invert(n2o, n) == InvertFrom(n2o, 0, Vec(n, 0))

\* Option<Vec<usize>>
NoneVal == [some |-> FALSE, val |-> <<>>]
Some(v) == [some |-> TRUE, val |-> v]

PermIdle ==
    /\ cols_queue = ColsQueue_new(0)
    /\ new2orig = <<>>
    /\ orig2new = <<>>

ColamdIdle ==
    /\ rows = <<>>
    /\ cols = <<>>
    /\ cur_ordered_col = 0
    /\ is_ordered_col = <<>>
    /\ is_absorbed_row = <<>>
    /\ col_scores = <<>>
    /\ pivot_c = None
    /\ pivot_row = <<>>
    /\ pivot_r = None
    /\ row_set_diffs = <<>>
    /\ rows_with_diffs = <<>>
    /\ is_in_diffs = <<>>
    /\ num_iters = 0
    /\ panic_line = 0

MatchIdle ==
    /\ col2visited_on_iter = <<>>
    /\ row2matched_col = <<>>
    /\ cheap = <<>>
    /\ start_c = 0
    /\ found = FALSE
    /\ matching = NoneVal

BlockIdle ==
    /\ row2col = <<>>
    /\ visited = <<>>
    /\ is_visited = <<>>
    /\ block_cols = <<>>

NoCall == [op |-> "new", col |-> None, score |-> None, min_before |-> None,
           first_min |-> None, prev_pop |-> None]

QueueIdle ==
    /\ q_keys = <<>>
    /\ q_last = NoCall

\* The caller's arguments: a size and a pattern of that size.
Inputs ==
    \E n \in 0 .. MaxSize : \E p \in Patterns(n) :
        /\ size = n
        /\ get_col = p

(***************************************************************************)
(* ColsQueue under any caller that keeps the preconditions: add only a key *)
(* that is not queued, remove only a queued key with its current score.    *)
(* The priorities offered to add are those of [0, num_cols].               *)
(***************************************************************************)
QueuedCols == { q_keys[k].col : k \in 1 .. Len(q_keys) }

ScoreOf(c) ==
    IF c \in QueuedCols
    THEN q_keys[CHOOSE k \in 1 .. Len(q_keys) : q_keys[k].col = c].score
    ELSE None

\* The least score of a queued key, None when nothing is queued.
MinQueuedScore ==
    IF q_keys = <<>> THEN None
    ELSE CHOOSE m \in { q_keys[k].score : k \in 1 .. Len(q_keys) } :
             \A k \in 1 .. Len(q_keys) : m <= q_keys[k].score

\* The key of least score that was added earliest, None when nothing is queued.
FirstMinQueued ==
    IF q_keys = <<>> THEN None
    ELSE q_keys[CHOOSE k \in 1 .. Len(q_keys) :
                    /\ q_keys[k].score = MinQueuedScore
                    /\ \A j \in 1 .. (k - 1) : q_keys[j].score # MinQueuedScore].col

\* q_keys without the entry of key c.
Unqueue(c) == SelectSeq(q_keys, LAMBDA e : e.col # c)

\* The score returned by the latest pop_min that no add has followed.
LastPopScore ==
    IF q_last.op = "pop" THEN q_last.score
    ELSE IF q_last.op = "remove" THEN q_last.prev_pop
    ELSE None

QueueInit ==
    /\ size \in 0 .. MaxSize
    /\ get_col = <<>>
    /\ pc = "queue"
    /\ cols_queue = ColsQueue_new(size)
    /\ new2orig = <<>>
    /\ orig2new = <<>>
    /\ QueueIdle /\ ColamdIdle /\ MatchIdle /\ BlockIdle

\* cols_queue.add(c, s) for a key that is not queued.
QueueAdd ==
    /\ pc = "queue"
    /\ \E c \in Idx(size) \ QueuedCols : \E s \in 0 .. size :
          /\ q_last' = [NoCall EXCEPT !.op = "add", !.col = c, !.score = s]
          /\ IF ColsQueue_add_panics(cols_queue, c, s)
             THEN pc' = "panic" /\ UNCHANGED <<cols_queue, q_keys>>
             ELSE /\ cols_queue' = ColsQueue_add(cols_queue, c, s)
                  /\ q_keys' = Append(q_keys, [col |-> c, score |-> s])
                  /\ pc' = pc
    /\ UNCHANGED <<inputVars, new2orig, orig2new, colamdVars, matchVars, blockVars>>

\* cols_queue.remove(c, s) for a queued key and its score.
QueueRemove ==
    /\ pc = "queue"
    /\ \E c \in QueuedCols :
          /\ q_last' = [NoCall EXCEPT !.op = "remove", !.col = c, !.score = ScoreOf(c),
                                      !.prev_pop = LastPopScore]
          /\ IF ColsQueue_remove_panics(cols_queue, c, ScoreOf(c))
             THEN pc' = "panic" /\ UNCHANGED <<cols_queue, q_keys>>
             ELSE /\ cols_queue' = ColsQueue_remove(cols_queue, c, ScoreOf(c))
                  /\ q_keys' = Unqueue(c)
                  /\ pc' = pc
    /\ UNCHANGED <<inputVars, new2orig, orig2new, colamdVars, matchVars, blockVars>>

\* cols_queue.pop_min()
QueuePop ==
    /\ pc = "queue"
    /\ LET r == ColsQueue_pop_min(cols_queue)
       IN /\ cols_queue' = r.queue
          /\ q_last' = [op |-> "pop", col |-> r.col, score |-> ScoreOf(r.col),
                        min_before |-> MinQueuedScore, first_min |-> FirstMinQueued,
                        prev_pop |-> LastPopScore]
          /\ q_keys' = Unqueue(r.col)
          /\ pc' = IF r.panic THEN "panic" ELSE pc
    /\ UNCHANGED <<inputVars, new2orig, orig2new, colamdVars, matchVars, blockVars>>

QueueNext == QueueAdd \/ QueueRemove \/ QueuePop

SpecQueue == QueueInit /\ [][QueueNext]_vars

(***************************************************************************)
(* order_simple                                                            *)
(***************************************************************************)
\* for c in 0..size { cols_queue.add(c, get_col(c).len() - 1); }
\* An empty column underflows len() - 1; a score >= size is out of bounds.
RECURSIVE SimpleAddFrom(_, _)
SimpleAddFrom(c, q) ==
    IF c >= size THEN [queue |-> q, panic |-> FALSE]
    ELSE IF Len(get_col[c]) = 0 \/ ColsQueue_add_panics(q, c, Len(get_col[c]) - 1)
    THEN [queue |-> q, panic |-> TRUE]
    ELSE SimpleAddFrom(c + 1, ColsQueue_add(q, c, Len(get_col[c]) - 1))

SimpleInit ==
    /\ Inputs
    /\ pc = "simple_add"
    /\ QueueIdle /\ PermIdle /\ ColamdIdle /\ MatchIdle /\ BlockIdle

\* Lines 5-8: create the queue and add every column.
SimpleAdd ==
    /\ pc = "simple_add"
    /\ LET r == SimpleAddFrom(0, ColsQueue_new(size))
       IN /\ cols_queue' = r.queue
          /\ pc' = IF r.panic THEN "panic" ELSE "simple_pop"
    /\ UNCHANGED <<inputVars, queueVars, new2orig, orig2new, colamdVars, matchVars, blockVars>>

\* Lines 11-13: one iteration of the pop loop.
SimplePop ==
    /\ pc = "simple_pop"
    /\ VecLen(new2orig) < size
    /\ LET r == ColsQueue_pop_min(cols_queue)
       IN /\ cols_queue' = r.queue
          /\ IF r.panic \/ r.col = None
             THEN pc' = "panic" /\ UNCHANGED new2orig
             ELSE pc' = pc /\ new2orig' = VecPush(new2orig, r.col)
    /\ UNCHANGED <<inputVars, queueVars, orig2new, colamdVars, matchVars, blockVars>>

\* Lines 15-20: build orig2new and return the Perm.
SimpleReturn ==
    /\ pc = "simple_pop"
    /\ VecLen(new2orig) >= size
    /\ orig2new' = Invert(new2orig, size)
    /\ pc' = "done"
    /\ UNCHANGED <<inputVars, queueVars, cols_queue, new2orig, colamdVars, matchVars, blockVars>>

SimpleNext == SimpleAdd \/ SimplePop \/ SimpleReturn

SpecSimple == SimpleInit /\ [][SimpleNext]_vars

(***************************************************************************)
(* find_diag_matching                                                      *)
(***************************************************************************)
Pop(stack) == SubSeq(stack, 1, Len(stack) - 1)
Top(stack) == stack[Len(stack)]
Step(col, cur_i) == [col |-> col, cur_i |-> cur_i]

\* A scan that steps over the row at position 0 without looking at it.
RECURSIVE CheapScanSkipsFirstRow(_, _, _)
CheapScanSkipsFirstRow(col_rows, matched, k) ==
    IF k >= Len(col_rows) THEN k
    ELSE IF k > 0 /\ matched[col_rows[k + 1]] = SENTINEL THEN k
    ELSE CheapScanSkipsFirstRow(col_rows, matched, k + 1)

\* Lines 434-443: advance the cheap pointer to the first unmatched row.
RECURSIVE CheapScan(_, _, _)
CheapScan(col_rows, matched, k) ==
    IF k >= Len(col_rows) THEN k
    ELSE IF matched[col_rows[k + 1]] = SENTINEL THEN k
    ELSE CheapScan(col_rows, matched, k + 1)

\* Lines 455-461: advance cur_i to the first row whose matched column was not
\* visited in this iteration.  Indexing col2visited_on_iter with SENTINEL
\* (an unmatched row) is out of bounds.
RECURSIVE VisitScan(_, _, _, _, _)
VisitScan(col_rows, matched, visited_on, sc, i) ==
    IF i >= Len(col_rows) THEN [cur_i |-> i, panic |-> FALSE]
    ELSE LET m == matched[col_rows[i + 1]]
         IN IF m \notin DOMAIN visited_on THEN [cur_i |-> i, panic |-> TRUE]
            ELSE IF visited_on[m] # sc THEN [cur_i |-> i, panic |-> FALSE]
            ELSE VisitScan(col_rows, matched, visited_on, sc, i + 1)

\* A search that pops every frame instead of descending through a matched row.
DfsDescendNeverPushes(d, cur_i, sc) == [d EXCEPT !.stack = Pop(d.stack)]

\* Lines 455-468: scan on from cur_i, then pop the frame or push the next one.
DfsDescend(d, cur_i, sc) ==
    LET c        == Top(d.stack).col
        col_rows == get_col[c]
        v        == VisitScan(col_rows, d.matched, d.visited_on, sc, cur_i)
    IN IF v.panic THEN [d EXCEPT !.panic = TRUE]
       ELSE IF v.cur_i = Len(col_rows) THEN [d EXCEPT !.stack = Pop(d.stack)]
       ELSE [d EXCEPT !.stack = Append(Pop(d.stack), Step(c, v.cur_i))
                                \o <<Step(d.matched[col_rows[v.cur_i + 1]], 0)>>]

\* An unwinding that pops the frame without taking its row.
DfsUnwindWithoutAssign(d) == [d EXCEPT !.stack = Pop(d.stack)]

\* Lines 445-450: a frame resumed after its child augmented takes the row
\* it descended through, and is popped.
DfsUnwind(d) ==
    LET top == Top(d.stack)
    IN [d EXCEPT !.matched[get_col[top.col][top.cur_i + 1]] = top.col,
                 !.stack = Pop(d.stack)]

\* Lines 425-469: 'dfs_loop, run until the stack is empty.
RECURSIVE DfsLoop(_, _)
DfsLoop(d, sc) ==
    IF d.panic \/ Len(d.stack) = 0 THEN d
    ELSE LET top      == Top(d.stack)
             c        == top.col
             col_rows == get_col[c]
         IN IF d.visited_on[c] # sc
            THEN LET k  == CheapScan(col_rows, d.matched, d.cheap[c])
                     d1 == [d EXCEPT !.visited_on[c] = sc, !.cheap[c] = k]
                 IN IF k < Len(col_rows)
                    THEN DfsLoop([d1 EXCEPT !.matched[col_rows[k + 1]] = c,
                                            !.found = TRUE,
                                            !.stack = Pop(d.stack)], sc)
                    ELSE DfsLoop(DfsDescend(d1, top.cur_i, sc), sc)
            ELSE IF d.found
                 THEN DfsLoop(DfsUnwind(d), sc)
                 ELSE DfsLoop(DfsDescend(d, top.cur_i + 1, sc), sc)

\* Lines 417-469: the search started from column sc.
MatchSearch(m, sc) ==
    DfsLoop([m EXCEPT !.found = FALSE, !.stack = <<Step(sc, 0)>>], sc)

\* Lines 405-408.
MatchState0(n) ==
    [ visited_on |-> Vec(n, SENTINEL), matched |-> Vec(n, SENTINEL),
      cheap |-> Vec(n, 0), found |-> FALSE, stack |-> <<>>, panic |-> FALSE ]

\* Lines 416-476: [panic, value], value the Option returned.
RECURSIVE MatchFrom(_, _)
MatchFrom(m, sc) ==
    IF sc >= size THEN [panic |-> FALSE, value |-> Some(m.matched)]
    ELSE LET m1 == MatchSearch(m, sc)
         IN IF m1.panic THEN [panic |-> TRUE, value |-> NoneVal]
            ELSE IF ~m1.found THEN [panic |-> FALSE, value |-> NoneVal]
            ELSE MatchFrom(m1, sc + 1)

find_diag_matching == MatchFrom(MatchState0(size), 0)

MatchInit ==
    /\ Inputs
    /\ pc = "match_start"
    /\ QueueIdle /\ PermIdle /\ ColamdIdle /\ MatchIdle /\ BlockIdle

\* Lines 405-415.
MatchStart ==
    /\ pc = "match_start"
    /\ col2visited_on_iter' = Vec(size, SENTINEL)
    /\ row2matched_col' = Vec(size, SENTINEL)
    /\ cheap' = Vec(size, 0)
    /\ start_c' = 0
    /\ pc' = "match_loop"
    /\ UNCHANGED <<inputVars, queueVars, permVars, colamdVars, found, matching, blockVars>>

\* Lines 416-473: one iteration of the loop over start_c; a search that does
\* not augment returns None.
MatchIter ==
    /\ pc = "match_loop"
    /\ start_c < size
    /\ LET m == MatchSearch([ visited_on |-> col2visited_on_iter,
                              matched |-> row2matched_col, cheap |-> cheap,
                              found |-> found, stack |-> <<>>, panic |-> FALSE ],
                            start_c)
       IN /\ col2visited_on_iter' = m.visited_on
          /\ row2matched_col' = m.matched
          /\ cheap' = m.cheap
          /\ found' = m.found
          /\ IF m.panic THEN pc' = "panic" /\ UNCHANGED start_c
             ELSE IF ~m.found THEN pc' = "done" /\ UNCHANGED start_c
             ELSE pc' = pc /\ start_c' = start_c + 1
    /\ matching' = NoneVal
    /\ UNCHANGED <<inputVars, queueVars, permVars, colamdVars, blockVars>>

\* Line 476.
MatchReturn ==
    /\ pc = "match_loop"
    /\ start_c >= size
    /\ matching' = Some(row2matched_col)
    /\ pc' = "done"
    /\ UNCHANGED <<inputVars, queueVars, permVars, colamdVars, col2visited_on_iter,
                   row2matched_col, cheap, start_c, found, blockVars>>

MatchNext == MatchStart \/ MatchIter \/ MatchReturn

SpecMatching == MatchInit /\ [][MatchNext]_vars

(***************************************************************************)
(* find_block_diag_form                                                    *)
(***************************************************************************)
\* A scan whose bound is off by one: the last successor is never taken.
RECURSIVE SkipVisitedAndLast(_, _, _)
SkipVisitedAndLast(succ, is_vis, i) ==
    IF i + 1 >= Len(succ) THEN Len(succ)
    ELSE IF ~is_vis[succ[i + 1]] THEN i
    ELSE SkipVisitedAndLast(succ, is_vis, i + 1)

\* Lines 522-528 and 578-583: skip the successors already visited.
RECURSIVE SkipVisited(_, _, _)
SkipVisited(succ, is_vis, i) ==
    IF i >= Len(succ) THEN i
    ELSE IF ~is_vis[succ[i + 1]] THEN i
    ELSE SkipVisited(succ, is_vis, i + 1)

\* Successors read without the matching: the rows themselves.
FwdSuccUnmatched(c, r2c) == get_col[c]

\* Lines 521-523: the successors of column c, row2col[r] for r in get_col(c).
FwdSucc(c, r2c) == [k \in 1 .. Len(get_col[c]) |-> r2c[get_col[c][k]]]

\* Lines 512-537: the forward search, run until the stack is empty; a column
\* is appended to `visited` when its successors are exhausted.
RECURSIVE FwdDfs(_, _)
FwdDfs(f, r2c) ==
    IF Len(f.stack) = 0 THEN f
    ELSE LET top  == Top(f.stack)
             c    == top.col
             cur0 == IF ~f.is_visited[c] THEN top.cur_i ELSE top.cur_i + 1
             isv  == [f.is_visited EXCEPT ![c] = TRUE]
             succ == FwdSucc(c, r2c)
             i    == SkipVisited(succ, isv, cur0)
         IN IF i < Len(succ)
            THEN FwdDfs([f EXCEPT !.is_visited = isv,
                                  !.stack = Append(Pop(f.stack), Step(c, i))
                                            \o <<Step(succ[i + 1], 0)>>], r2c)
            ELSE FwdDfs([f EXCEPT !.is_visited = isv,
                                  !.visited = Append(f.visited, c),
                                  !.stack = Pop(f.stack)], r2c)

\* Lines 502-538: the loop over start_c.
RECURSIVE FwdFrom(_, _, _)
FwdFrom(f, r2c, sc) ==
    IF sc >= size THEN f
    ELSE IF f.is_visited[sc] THEN FwdFrom(f, r2c, sc + 1)
    ELSE FwdFrom(FwdDfs([f EXCEPT !.stack = <<Step(sc, 0)>>], r2c), r2c, sc + 1)

\* Lines 544-546: rows[row2col[r]].push(c) for the rows r of column c from
\* position k on.
RECURSIVE TransposeCol(_, _, _, _)
TransposeCol(t, r2c, c, k) ==
    IF k > Len(get_col[c]) THEN t
    ELSE TransposeCol([t EXCEPT ![r2c[get_col[c][k]]] = Append(@, c)], r2c, c, k + 1)

\* Lines 542-547.
RECURSIVE TransposeFrom(_, _, _)
TransposeFrom(t, r2c, c) ==
    IF c >= size THEN t
    ELSE TransposeFrom(TransposeCol(t, r2c, c, 1), r2c, c + 1)

\* A push to the first block instead of the last.
PushFirst(blocks, c) == [blocks EXCEPT ![1] = Append(@, c)]

\* block_cols.last_mut().unwrap().push(c)
PushLast(blocks, c) == [blocks EXCEPT ![Len(blocks)] = Append(@, c)]

\* Lines 567-591: the search on the transposed graph; a column joins the
\* last block when it is first visited.
RECURSIVE RevDfs(_, _)
RevDfs(b, t) ==
    IF Len(b.stack) = 0 THEN b
    ELSE LET top    == Top(b.stack)
             c      == top.col
             first  == ~b.is_visited[c]
             cur0   == IF first THEN top.cur_i ELSE top.cur_i + 1
             isv    == [b.is_visited EXCEPT ![c] = TRUE]
             blocks == IF first THEN PushLast(b.block_cols, c) ELSE b.block_cols
             next   == t[c]
             i      == SkipVisited(next, isv, cur0)
         IN IF i < Len(next)
            THEN RevDfs([b EXCEPT !.is_visited = isv, !.block_cols = blocks,
                                  !.stack = Append(Pop(b.stack), Step(c, i))
                                            \o <<Step(next[i + 1], 0)>>], t)
            ELSE RevDfs([b EXCEPT !.is_visited = isv, !.block_cols = blocks,
                                  !.stack = Pop(b.stack)], t)

\* The second pass started in post-order, not reversed.
RevOrderNotReversed(order) == order

\* visited.iter().rev(): the start columns of the second pass, position k
\* of `order` first.
RevOrder(order) == [k \in 1 .. Len(order) |-> order[Len(order) + 1 - k]]

\* Lines 555-592: the loop over the start columns, from position k of `order`.
RECURSIVE RevFrom(_, _, _, _)
RevFrom(b, t, order, k) ==
    IF k > Len(order) THEN b
    ELSE IF b.is_visited[order[k]] THEN RevFrom(b, t, order, k + 1)
    ELSE RevFrom(RevDfs([b EXCEPT !.block_cols = Append(b.block_cols, <<>>),
                                  !.stack = <<Step(order[k], 0)>>], t),
                 t, order, k + 1)

BlockInit ==
    /\ Inputs
    /\ pc = "block_match"
    /\ QueueIdle /\ PermIdle /\ ColamdIdle /\ MatchIdle /\ BlockIdle

\* Line 492: find_diag_matching(size, &get_col).unwrap().
BlockMatch ==
    /\ pc = "block_match"
    /\ LET m == find_diag_matching
       IN IF m.panic \/ ~m.value.some
          THEN pc' = "panic" /\ UNCHANGED row2col
          ELSE pc' = "block_forward" /\ row2col' = m.value.val
    /\ UNCHANGED <<inputVars, queueVars, permVars, colamdVars, matchVars, visited,
                   is_visited, block_cols>>

\* Lines 499-538: the forward search from every column.
BlockForward ==
    /\ pc = "block_forward"
    /\ LET f == FwdFrom([stack |-> <<>>, visited |-> <<>>,
                         is_visited |-> Vec(size, FALSE)], row2col, 0)
       IN /\ visited' = f.visited
          /\ is_visited' = f.is_visited
    /\ pc' = "block_transpose"
    /\ UNCHANGED <<inputVars, queueVars, permVars, colamdVars, matchVars, row2col, block_cols>>

\* The second pass given the graph itself, not its transpose.
BlockTransposeOmitted ==
    /\ pc = "block_transpose"
    /\ rows' = [c \in Idx(size) |-> FwdSucc(c, row2col)]
    /\ is_visited' = Vec(size, FALSE)
    /\ block_cols' = <<>>
    /\ pc' = "block_reverse"
    /\ UNCHANGED <<inputVars, queueVars, permVars, colamdRest, matchVars, row2col, visited>>

\* Lines 542-552: the transposed graph; is_visited is cleared.
BlockTranspose ==
    /\ pc = "block_transpose"
    /\ rows' = TransposeFrom(Vec(size, <<>>), row2col, 0)
    /\ is_visited' = Vec(size, FALSE)
    /\ block_cols' = <<>>
    /\ pc' = "block_reverse"
    /\ UNCHANGED <<inputVars, queueVars, permVars, colamdRest, matchVars, row2col, visited>>

\* Lines 555-597: the search on the transposed graph in reverse post-order,
\* and the return of BlockDiagForm { row2col, block_cols }.
BlockReverse ==
    /\ pc = "block_reverse"
    /\ LET b == RevFrom([stack |-> <<>>, block_cols |-> block_cols,
                         is_visited |-> is_visited], rows, RevOrder(visited), 1)
       IN /\ block_cols' = b.block_cols
          /\ is_visited' = b.is_visited
    /\ pc' = "done"
    /\ UNCHANGED <<inputVars, queueVars, permVars, colamdVars, matchVars, row2col, visited>>

BlockNext == BlockMatch \/ BlockForward \/ BlockTranspose \/ BlockReverse

SpecBlock == BlockInit /\ [][BlockNext]_vars

(***************************************************************************)
(* Properties of find_diag_matching                                        *)
(***************************************************************************)
Injective(f) == \A a, b \in DOMAIN f : f[a] = f[b] => a = b

\* The pattern has a perfect matching: a bijection rows -> columns along
\* nonzeros.
HasPerfectMatching ==
    \E f \in [Idx(size) -> Idx(size)] :
        /\ Injective(f)
        /\ \A r \in Idx(size) : r \in SeqToSet(get_col[f[r]])

\* C2: find_diag_matching returns Some(m) iff the pattern has a perfect
\* matching, and returns None otherwise, at the first start column whose
\* search does not augment (the loop goes on only after a search that did).
C2_SomeIffPerfectMatching ==
    /\ pc # "panic"
    /\ pc = "match_loop" /\ start_c > 0 => found
    /\ pc = "done" =>
          /\ matching.some <=> HasPerfectMatching
          /\ ~matching.some =>
                /\ start_c < size
                /\ ~found
                /\ col2visited_on_iter[start_c] = start_c
                /\ \A c \in Idx(size) : c > start_c => col2visited_on_iter[c] = SENTINEL

\* None is returned at the third start column, after two searches augmented.
C2_Witness ==
    /\ pc = "done"
    /\ ~matching.some
    /\ size = 3
    /\ start_c = 2

\* C3: a returned Some(m) is a perfect matching: every row is matched to a
\* column of [0, size) that holds it, and no column is matched to two rows.
C3_ValidMatching ==
    pc = "done" /\ matching.some =>
        /\ DOMAIN matching.val = Idx(size)
        /\ \A r \in Idx(size) :
              /\ matching.val[r] # SENTINEL
              /\ matching.val[r] \in Idx(size)
              /\ r \in SeqToSet(get_col[matching.val[r]])
        /\ Injective(matching.val)

\* tests::diag_matching: nonzeros (0,0),(0,1),(0,2),(1,0),(1,2),(2,0) give
\* Some([1, 2, 0]).
C3_Witness ==
    /\ pc = "done"
    /\ size = 3
    /\ get_col = (0 :> <<0, 1, 2>> @@ 1 :> <<0>> @@ 2 :> <<0, 1>>)
    /\ matching = Some((0 :> 1 @@ 1 :> 2 @@ 2 :> 0))

(***************************************************************************)
(* Properties of find_block_diag_form                                      *)
(***************************************************************************)
\* Position in block_cols of the block that holds column c.
BlockOf(c) == CHOOSE k \in 1 .. Len(block_cols) : c \in SeqToSet(block_cols[k])

\* The matched digraph: c -> c2 iff c2 = row2col[r] for some r in col(c).
Edge(c, c2) == \E k \in 1 .. Len(get_col[c]) : row2col[get_col[c][k]] = c2

RECURSIVE ReachSet(_)
ReachSet(S) ==
    LET T == S \cup { d \in Idx(size) : \E c \in S : Edge(c, d) }
    IN IF T = S THEN S ELSE ReachSet(T)

Reach(c, d) == d \in ReachSet({c})

\* C4: on a pattern with a perfect matching find_block_diag_form returns,
\* and block_cols holds every column of [0, size) in exactly one place and
\* has no empty block.
C4_BlocksPartition ==
    /\ pc = "panic" => ~HasPerfectMatching
    /\ pc = "done" =>
          /\ \A k \in 1 .. Len(block_cols) :
                /\ Len(block_cols[k]) > 0
                /\ SeqToSet(block_cols[k]) \subseteq Idx(size)
          /\ \A c \in Idx(size) :
                Cardinality({ kj \in (1 .. Len(block_cols)) \X (1 .. size) :
                                /\ kj[2] <= Len(block_cols[kj[1]])
                                /\ block_cols[kj[1]][kj[2]] = c }) = 1

\* tests::block_diag_form: row2col = [2, 0, 1], block_cols = [[0, 1], [2]].
C4_Witness ==
    /\ pc = "done"
    /\ get_col = (0 :> <<1, 2>> @@ 1 :> <<0, 1, 2>> @@ 2 :> <<0>>)
    /\ row2col = (0 :> 2 @@ 1 :> 0 @@ 2 :> 1)
    /\ block_cols = << <<0, 1>>, <<2>> >>

\* C5 as stated: no edge of the matched digraph leads from a block to a
\* later block.
C5_NoEdgeToLaterBlock ==
    pc = "done" =>
        \A c, c2 \in Idx(size) : Edge(c, c2) => ~(BlockOf(c) < BlockOf(c2))

\* C5, amended: no edge of the matched digraph leads from a block to an
\* earlier block; every edge between different blocks goes from the earlier
\* block to the later one.
C5_NoEdgeToEarlierBlock ==
    pc = "done" =>
        \A i, j \in 1 .. Len(block_cols) :
            i < j => \A c \in SeqToSet(block_cols[j]), c2 \in SeqToSet(block_cols[i]) :
                        ~Edge(c, c2)

\* Some edge joins two different blocks.
C5_Witness ==
    /\ pc = "done"
    /\ \E c, c2 \in Idx(size) : Edge(c, c2) /\ BlockOf(c) # BlockOf(c2)

\* C6: with row r moved to position row2col[r], every nonzero (r, c) lies on
\* or below the block diagonal: the block of row2col[r] is not before the
\* block of c.
C6_LowerBlockTriangular ==
    pc = "done" =>
        \A c \in Idx(size) : \A k \in 1 .. Len(get_col[c]) :
            BlockOf(row2col[get_col[c][k]]) >= BlockOf(c)

\* Some nonzero lies strictly below the block diagonal.
C6_Witness ==
    /\ pc = "done"
    /\ \E c \in Idx(size) : \E k \in 1 .. Len(get_col[c]) :
          BlockOf(row2col[get_col[c][k]]) > BlockOf(c)

\* C7: two columns are in the same block iff each is reachable from the
\* other in the matched digraph.
C7_BlocksAreSccs ==
    pc = "done" =>
        \A c, d \in Idx(size) :
            (BlockOf(c) = BlockOf(d)) <=> (Reach(c, d) /\ Reach(d, c))

\* A block of several columns next to another block, with an edge between.
C7_Witness ==
    /\ pc = "done"
    /\ Len(block_cols) >= 2
    /\ \E k \in 1 .. Len(block_cols) : Len(block_cols[k]) >= 2
    /\ \E c, d \in Idx(size) : Reach(c, d) /\ ~Reach(d, c)

\* col(c) = [c] for every c.
IsDiagonal == \A c \in Idx(size) : get_col[c] = <<c>>

\* C8 as stated: on a diagonal pattern the matching is the identity and
\* block_cols = [[0], [1], ..., [size-1]].
C8_DiagonalAscending ==
    pc = "done" /\ IsDiagonal =>
        /\ row2col = [r \in Idx(size) |-> r]
        /\ block_cols = [k \in 1 .. size |-> <<k - 1>>]

\* C8, amended: on a diagonal pattern the matching is the identity and
\* block_cols = [[size-1], ..., [1], [0]]: the singleton blocks in descending
\* column order.
C8_DiagonalDescending ==
    /\ IsDiagonal => pc # "panic"
    /\ pc = "done" /\ IsDiagonal =>
          /\ row2col = [r \in Idx(size) |-> r]
          /\ block_cols = [k \in 1 .. size |-> <<size - k>>]

C8_Witness ==
    /\ pc = "done"
    /\ IsDiagonal
    /\ size = MaxSize
    /\ Len(block_cols) = size

(***************************************************************************)
(* Properties of order_simple                                              *)
(***************************************************************************)
\* new2orig and orig2new are inverse permutations of [0, size).
InversePerms ==
    /\ DOMAIN new2orig = Idx(size)
    /\ DOMAIN orig2new = Idx(size)
    /\ \A c \in Idx(size) : \E i \in Idx(size) : new2orig[i] = c
    /\ \A i \in Idx(size) : new2orig[i] \in Idx(size) /\ orig2new[new2orig[i]] = i

\* Every column has between 1 and size nonzeros.
NoEmptyColumn == \A c \in Idx(size) : Len(get_col[c]) \in 1 .. size

\* C10: when every column has between 1 and size nonzeros order_simple
\* returns inverse permutations that list the columns in ascending order of
\* nonzero count.
C10_SimpleAscendingCounts ==
    NoEmptyColumn =>
        /\ pc # "panic"
        /\ pc = "done" =>
              /\ InversePerms
              /\ \A i \in Idx(size - 1) :
                    Len(get_col[new2orig[i]]) <= Len(get_col[new2orig[i + 1]])

\* Three columns of three different counts, none at its original place.
C10_Witness ==
    /\ pc = "done"
    /\ size = 3
    /\ NoEmptyColumn
    /\ \A i \in Idx(size) : new2orig[i] # i
    /\ \A i \in Idx(size - 1) :
          Len(get_col[new2orig[i]]) < Len(get_col[new2orig[i + 1]])

(***************************************************************************)
(* order_colamd                                                            *)
(***************************************************************************)
\* The locals of order_colamd as one record, and their write-back.
ColamdState ==
    [ rows |-> rows, cols |-> cols, new2orig |-> new2orig,
      cur_ordered_col |-> cur_ordered_col, is_ordered_col |-> is_ordered_col,
      is_absorbed_row |-> is_absorbed_row, cols_queue |-> cols_queue,
      col_scores |-> col_scores, pivot_c |-> pivot_c, pivot_row |-> pivot_row,
      pivot_r |-> pivot_r, row_set_diffs |-> row_set_diffs,
      rows_with_diffs |-> rows_with_diffs, is_in_diffs |-> is_in_diffs,
      col_rows_len |-> <<>>, stack |-> <<>>,   \* locals of lines 76-77
      panic |-> FALSE, panic_line |-> 0 ]

\* The panic raised at a source line.
Panic(s, line) == [s EXCEPT !.panic = TRUE, !.panic_line = line]

ColamdStore(s, next_pc) ==
    /\ rows' = s.rows
    /\ cols' = s.cols
    /\ new2orig' = s.new2orig
    /\ cur_ordered_col' = s.cur_ordered_col
    /\ is_ordered_col' = s.is_ordered_col
    /\ is_absorbed_row' = s.is_absorbed_row
    /\ cols_queue' = s.cols_queue
    /\ col_scores' = s.col_scores
    /\ pivot_c' = s.pivot_c
    /\ pivot_row' = s.pivot_row
    /\ pivot_r' = s.pivot_r
    /\ row_set_diffs' = s.row_set_diffs
    /\ rows_with_diffs' = s.rows_with_diffs
    /\ is_in_diffs' = s.is_in_diffs
    /\ panic_line' = s.panic_line
    /\ pc' = IF s.panic THEN "panic" ELSE next_pc

\* Lines 52-56 (and the compactions of lines 133-141, 256-263): the rows of
\* a list that are not absorbed, in order.
LiveRows(rs, absorbed) == SelectSeq(rs, LAMBDA r : ~absorbed[r])

\* Lines 60-62: rows[r].cols.push(c) for every r of cur_col.
PushCol(rws, cur_col, c) ==
    [r \in DOMAIN rws |-> IF r \in SeqToSet(cur_col) THEN Append(rws[r], c) ELSE rws[r]]

\* Lines 50-70: gather column c and the ones after it.  A column left with no
\* live row panics at cur_col[0], after lines 64-66.
RECURSIVE GatherFrom(_, _)
GatherFrom(s, c) ==
    IF c >= size THEN s
    ELSE LET cur_col == LiveRows(get_col[c], s.is_absorbed_row)
         IN IF Len(cur_col) > 1
            THEN GatherFrom([s EXCEPT !.cols[c] = cur_col,
                                      !.rows = PushCol(s.rows, cur_col, c)], c + 1)
            ELSE LET s1 == [s EXCEPT !.is_ordered_col[c] = TRUE,
                                     !.new2orig[s.cur_ordered_col] = c,
                                     !.cur_ordered_col = s.cur_ordered_col + 1]
                 IN IF Len(cur_col) = 0 THEN Panic(s1, 68)
                    ELSE GatherFrom([s1 EXCEPT !.is_absorbed_row[cur_col[1]] = TRUE],
                                    c + 1)

\* Lines 89-94: decrement col_rows_len of the columns cs of row r from
\* position k on, pushing those that reach 1.
RECURSIVE CascadeRow(_, _, _)
CascadeRow(s, cs, k) ==
    IF k > Len(cs) THEN s
    ELSE IF s.col_rows_len[cs[k]] = 0 THEN Panic(s, 90)
    ELSE LET n == s.col_rows_len[cs[k]] - 1
         IN CascadeRow([s EXCEPT !.col_rows_len[cs[k]] = n,
                                 !.stack = IF n = 1 THEN Append(@, cs[k]) ELSE @],
                       cs, k + 1)

\* Lines 86-103: the cascade, run until the stack is empty.
RECURSIVE CascadeLoop(_)
CascadeLoop(s) ==
    IF s.panic \/ Len(s.stack) = 0 THEN s
    ELSE LET c    == Top(s.stack)
             live == LiveRows(s.cols[c], s.is_absorbed_row)
         IN IF Len(live) = 0 THEN Panic(s, 88)
            ELSE LET r  == live[1]
                     s1 == CascadeRow([s EXCEPT !.stack = Pop(s.stack)], s.rows[r], 1)
                 IN IF s1.panic THEN s1
                    ELSE CascadeLoop(
                           [s1 EXCEPT !.rows[r] = <<>>,
                                      !.is_absorbed_row[r] = TRUE,
                                      !.cols[c] = <<>>,
                                      !.is_ordered_col[c] = TRUE,
                                      !.new2orig[s.cur_ordered_col] = c,
                                      !.cur_ordered_col = s.cur_ordered_col + 1])

\* Lines 78-104: the loop over c; a cascade starts at a column whose
\* col_rows_len is 1.
RECURSIVE SingletonsFrom(_, _)
SingletonsFrom(s, c) ==
    IF s.panic \/ c >= size THEN s
    ELSE IF s.col_rows_len[c] # 1 THEN SingletonsFrom(s, c + 1)
    ELSE SingletonsFrom(CascadeLoop([s EXCEPT !.stack = <<c>>]), c + 1)

\* Lines 112-118: rows with at least dense_row_thresh columns are cleared
\* and absorbed.
DenseRows(s) ==
    LET ns_size          == size - s.cur_ordered_col
        dense_row_thresh == Max(DenseRowMin, ns_size \div 4)
        dense            == { r \in Idx(size) : Len(s.rows[r]) >= dense_row_thresh }
    IN [s EXCEPT !.rows = [r \in Idx(size) |-> IF r \in dense THEN <<>> ELSE s.rows[r]],
                 !.is_absorbed_row =
                     [r \in Idx(size) |-> (r \in dense) \/ s.is_absorbed_row[r]]]

\* (ns_size as f64).sqrt() as usize
ISqrt(n) == CHOOSE k \in 0 .. n : k * k <= n /\ (k + 1) * (k + 1) > n

\* Lines 126-150: compact the unordered columns from c on; the dense ones
\* and the ones left empty go to the queue.
RECURSIVE CompactFrom(_, _, _)
CompactFrom(s, dense_col_thresh, c) ==
    IF s.panic \/ c >= size THEN s
    ELSE IF s.is_ordered_col[c] THEN CompactFrom(s, dense_col_thresh, c + 1)
    ELSE LET live  == LiveRows(s.cols[c], s.is_absorbed_row)
             cur_i == Len(live)
             s1    == [s EXCEPT !.cols[c] = live]
             score == IF cur_i >= dense_col_thresh THEN cur_i ELSE size - 1
         IN IF cur_i >= dense_col_thresh \/ cur_i = 0
            THEN IF ColsQueue_add_panics(s1.cols_queue, c, score)
                 THEN Panic(s1, IF cur_i >= dense_col_thresh THEN 144 ELSE 148)
                 ELSE CompactFrom([s1 EXCEPT !.cols_queue = ColsQueue_add(@, c, score)],
                                  dense_col_thresh, c + 1)
            ELSE CompactFrom(s1, dense_col_thresh, c + 1)

\* Lines 156-160: pop the dense columns into the tail of new2orig.
RECURSIVE DensePopFrom(_, _, _)
DensePopFrom(s, num_dense_cols, i) ==
    IF s.panic \/ i >= num_dense_cols THEN s
    ELSE LET p == ColsQueue_pop_min(s.cols_queue)
         IN IF p.panic \/ p.col = None THEN Panic(s, 157)
            ELSE DensePopFrom([s EXCEPT !.cols_queue = p.queue,
                                        !.new2orig[size - num_dense_cols + i] = p.col,
                                        !.is_ordered_col[p.col] = TRUE],
                              num_dense_cols, i + 1)

\* Lines 121-162.
DenseCols(s) ==
    LET ns_size          == size - s.cur_ordered_col
        dense_col_thresh == Max(DenseColMin, ISqrt(ns_size))
        s1 == CompactFrom([s EXCEPT !.cols_queue = ColsQueue_new(size)],
                          dense_col_thresh, 0)
        s2 == DensePopFrom(s1, s1.cols_queue.len, 0)
    IN IF ~s2.panic /\ s2.cols_queue.len # 0 THEN Panic(s2, 161) ELSE s2

\* Lines 176-179: the sum of rows[r].cols.len() - 1 over the rows rs from
\* position k on; -1 stands for the usize underflow of an empty rows[r].cols.
RECURSIVE ScoreSum(_, _, _)
ScoreSum(rws, rs, k) ==
    IF k > Len(rs) THEN 0
    ELSE LET rest == ScoreSum(rws, rs, k + 1)
         IN IF Len(rws[rs[k]]) = 0 \/ rest = -1 THEN -1
            ELSE (Len(rws[rs[k]]) - 1) + rest

\* Lines 169-184: the initial scores of the unordered columns from c on.
RECURSIVE ScoresFrom(_, _)
ScoresFrom(s, c) ==
    IF s.panic \/ c >= size THEN s
    ELSE IF s.is_ordered_col[c] THEN ScoresFrom(s, c + 1)
    ELSE LET sum   == ScoreSum(s.rows, s.cols[c], 1)
             score == Min(sum, size - 1)
         IN IF sum = -1 THEN Panic(s, 178)
            ELSE IF ColsQueue_add_panics(s.cols_queue, c, score) THEN Panic(s, 183)
            ELSE ScoresFrom([s EXCEPT !.col_scores[c] = score,
                                      !.cols_queue = ColsQueue_add(@, c, score)],
                            c + 1)

\* The arguments of order_colamd.
ColamdInputs ==
    \E n \in 0 .. MaxColamdSize : \E p \in Patterns(n) :
        /\ size = n
        /\ get_col = p

ColamdInit ==
    /\ ColamdInputs
    /\ pc = "colamd_gather"
    /\ QueueIdle /\ PermIdle /\ ColamdIdle /\ MatchIdle /\ BlockIdle

\* Lines 38-71: allocate, gather rows and columns, order the columns that
\* have one live row.
ColamdGather ==
    /\ pc = "colamd_gather"
    /\ ColamdStore(
          GatherFrom([ColamdState EXCEPT !.rows = Vec(size, <<>>),
                                         !.cols = Vec(size, <<>>),
                                         !.new2orig = Vec(size, 0),
                                         !.cur_ordered_col = 0,
                                         !.is_ordered_col = Vec(size, FALSE),
                                         !.is_absorbed_row = Vec(size, FALSE)], 0),
          "colamd_singletons")
    /\ UNCHANGED <<inputVars, queueVars, orig2new, num_iters, matchVars, blockVars>>

\* Lines 73-105: the cascade over columns whose col_rows_len is 1.
ColamdSingletons ==
    /\ pc = "colamd_singletons"
    /\ ColamdStore(
          SingletonsFrom([ColamdState EXCEPT
                             !.col_rows_len = [c \in Idx(size) |-> Len(cols[c])]], 0),
          "colamd_dense_rows")
    /\ UNCHANGED <<inputVars, queueVars, orig2new, num_iters, matchVars, blockVars>>

\* Lines 107-119.
ColamdDenseRows ==
    /\ pc = "colamd_dense_rows"
    /\ ColamdStore(DenseRows(ColamdState), "colamd_dense_cols")
    /\ UNCHANGED <<inputVars, queueVars, orig2new, num_iters, matchVars, blockVars>>

\* Lines 121-162: compact the columns, order the dense ones at the end.
ColamdDenseCols ==
    /\ pc = "colamd_dense_cols"
    /\ ColamdStore(DenseCols(ColamdState), "colamd_scores")
    /\ UNCHANGED <<inputVars, queueVars, orig2new, num_iters, matchVars, blockVars>>

\* Lines 164-193: the initial scores, and the scratch vectors of the loop.
ColamdScores ==
    /\ pc = "colamd_scores"
    /\ ColamdStore(
          ScoresFrom([ColamdState EXCEPT !.col_scores = Vec(size, 0),
                                         !.pivot_row = <<>>,
                                         !.row_set_diffs = Vec(size, 0),
                                         !.rows_with_diffs = <<>>,
                                         !.is_in_diffs = Vec(size, FALSE)], 0),
          "colamd_loop")
    /\ UNCHANGED <<inputVars, queueVars, orig2new, num_iters, matchVars, blockVars>>

\* Lines 208-212: the unordered columns of cs, from position k on, that are
\* not yet in pivot_row are pushed to it (is_in_pivot_row is the membership
\* in pivot_row: it is all false before line 203 and after line 222).
RECURSIVE PivotRowPush(_, _, _, _)
PivotRowPush(pr, cs, ordered, k) ==
    IF k > Len(cs) THEN pr
    ELSE IF ~ordered[cs[k]] /\ cs[k] \notin SeqToSet(pr)
    THEN PivotRowPush(Append(pr, cs[k]), cs, ordered, k + 1)
    ELSE PivotRowPush(pr, cs, ordered, k + 1)

\* Lines 205-216: absorb the live rows of the pivot column, from position k
\* of cols[pivot_c].rows on, and merge their columns into pivot_row.
RECURSIVE PivotRows(_, _)
PivotRows(s, k) ==
    IF k > Len(s.cols[s.pivot_c]) THEN s
    ELSE LET r == s.cols[s.pivot_c][k]
         IN IF s.is_absorbed_row[r] THEN PivotRows(s, k + 1)
            ELSE PivotRows(
                   [s EXCEPT !.is_absorbed_row[r] = TRUE,
                             !.pivot_r = r,
                             !.pivot_row = PivotRowPush(s.pivot_row, s.rows[r],
                                                        s.is_ordered_col, 1),
                             !.rows[r] = <<>>],
                   k + 1)

\* A pivot step that writes new2orig but leaves cur_ordered_col where it is.
PivotKeepsPosition(s) ==
    LET p == ColsQueue_pop_min(s.cols_queue)
    IN IF p.panic \/ p.col = None THEN Panic(s, 196)
       ELSE IF s.cur_ordered_col \notin DOMAIN s.new2orig THEN Panic(s, 198)
       ELSE LET s1 == PivotRows(
                        [s EXCEPT !.cols_queue = p.queue,
                                  !.pivot_c = p.col,
                                  !.new2orig[s.cur_ordered_col] = p.col,
                                  !.is_ordered_col[p.col] = TRUE,
                                  !.pivot_row = <<>>,
                                  !.pivot_r = None], 1)
            IN IF s1.pivot_r = None THEN Panic(s1, 217) ELSE s1

\* Lines 196-222: pop the pivot column, order it, build the pivot row.
Pivot(s) ==
    LET p == ColsQueue_pop_min(s.cols_queue)
    IN IF p.panic \/ p.col = None THEN Panic(s, 196)
       ELSE IF s.cur_ordered_col \notin DOMAIN s.new2orig THEN Panic(s, 198)
       ELSE LET s1 == PivotRows(
                        [s EXCEPT !.cols_queue = p.queue,
                                  !.pivot_c = p.col,
                                  !.new2orig[s.cur_ordered_col] = p.col,
                                  !.cur_ordered_col = s.cur_ordered_col + 1,
                                  !.is_ordered_col[p.col] = TRUE,
                                  !.pivot_row = <<>>,
                                  !.pivot_r = None], 1)
            IN IF s1.pivot_r = None THEN Panic(s1, 217) ELSE s1

\* Lines 226-243: the rows of column c, from position k of cols[c].rows on.
\* A decrement of a zero counter underflows.
RECURSIVE DiffsCol(_, _, _)
DiffsCol(s, c, k) ==
    IF s.panic \/ k > Len(s.cols[c]) THEN s
    ELSE LET r == s.cols[c][k]
         IN IF s.is_absorbed_row[r] THEN DiffsCol(s, c, k + 1)
            ELSE LET first == ~s.is_in_diffs[r]
                     d0    == IF first THEN Len(s.rows[r]) ELSE s.row_set_diffs[r]
                     s1    == [s EXCEPT
                                 !.is_in_diffs[r] = TRUE,
                                 !.rows_with_diffs = IF first THEN Append(@, r) ELSE @,
                                 !.row_set_diffs[r] = d0]
                 IN IF d0 = 0 THEN Panic(s1, 237)
                    ELSE DiffsCol([s1 EXCEPT !.row_set_diffs[r] = d0 - 1,
                                             !.is_absorbed_row[r] = (d0 - 1 = 0)],
                                  c, k + 1)

\* A pass that leaves out the column at position k of pivot_row.
RECURSIVE DiffsFromSkipsFirst(_, _)
DiffsFromSkipsFirst(s, k) ==
    IF s.panic \/ k + 1 > Len(s.pivot_row) THEN s
    ELSE DiffsFromSkipsFirst(DiffsCol(s, s.pivot_row[k + 1], 1), k + 1)

\* Lines 225-244: the columns of pivot_row from position k on.
RECURSIVE DiffsFrom(_, _)
DiffsFrom(s, k) ==
    IF s.panic \/ k > Len(s.pivot_row) THEN s
    ELSE DiffsFrom(DiffsCol(s, s.pivot_row[k], 1), k + 1)

\* A sum that is never 0, so that no column is mass eliminated.
RECURSIVE DiffSumPlusOne(_, _, _)
DiffSumPlusOne(diffs, live, k) ==
    IF k > Len(live) THEN 1 ELSE diffs[live[k]] + DiffSumPlusOne(diffs, live, k + 1)

\* Lines 254-263: the sum of row_set_diffs over the live rows.
RECURSIVE DiffSum(_, _, _)
DiffSum(diffs, live, k) ==
    IF k > Len(live) THEN 0 ELSE diffs[live[k]] + DiffSum(diffs, live, k + 1)

\* Lines 249-279: the columns of pivot_row from position k on; `kept` is
\* pivot_row[0..cur_pivot_i].
RECURSIVE UpdateFrom(_, _, _)
UpdateFrom(s, kept, k) ==
    IF s.panic THEN s
    ELSE IF k > Len(s.pivot_row) THEN [s EXCEPT !.pivot_row = kept]
    ELSE LET c    == s.pivot_row[k]
             live == LiveRows(s.cols[c], s.is_absorbed_row)
             diff == DiffSum(s.row_set_diffs, live, 1)
         IN IF ColsQueue_remove_panics(s.cols_queue, c, s.col_scores[c])
            THEN Panic(s, 251)
            ELSE LET s1 == [s EXCEPT !.cols_queue = ColsQueue_remove(@, c, s.col_scores[c])]
                 IN IF diff = 0
                    THEN IF s1.cur_ordered_col \notin DOMAIN s1.new2orig
                         THEN Panic(s1, 268)
                         ELSE UpdateFrom(
                                [s1 EXCEPT !.new2orig[s1.cur_ordered_col] = c,
                                           !.cur_ordered_col = s1.cur_ordered_col + 1,
                                           !.is_ordered_col[c] = TRUE,
                                           !.cols[c] = <<>>],
                                kept, k + 1)
                    ELSE UpdateFrom([s1 EXCEPT !.col_scores[c] = diff,
                                               !.cols[c] = live],
                                    Append(kept, c), k + 1)

\* Lines 286-290.
ClearDiffs(s) ==
    [s EXCEPT !.row_set_diffs = [r \in DOMAIN @ |->
                                   IF r \in SeqToSet(s.rows_with_diffs) THEN 0 ELSE @[r]],
              !.is_in_diffs = [r \in DOMAIN @ |->
                                   IF r \in SeqToSet(s.rows_with_diffs) THEN FALSE ELSE @[r]],
              !.rows_with_diffs = <<>>]

\* A re-insertion that queues under the final score but leaves the
\* intermediate one in col_scores.
RECURSIVE ReinsertFromStaleScore(_, _)
ReinsertFromStaleScore(s, k) ==
    IF s.panic \/ k > Len(s.pivot_row) THEN s
    ELSE LET c     == s.pivot_row[k]
             score == Min(s.col_scores[c] + Len(s.pivot_row) - 1, size - 1)
         IN IF ColsQueue_add_panics(s.cols_queue, c, score) THEN Panic(s, 302)
            ELSE ReinsertFromStaleScore([s EXCEPT !.cols_queue = ColsQueue_add(@, c, score)],
                                        k + 1)

\* Lines 298-303: the final scores of the columns of pivot_row from position
\* k on, and their return to the queue.
RECURSIVE ReinsertFrom(_, _)
ReinsertFrom(s, k) ==
    IF s.panic \/ k > Len(s.pivot_row) THEN s
    ELSE LET c     == s.pivot_row[k]
             score == Min(s.col_scores[c] + Len(s.pivot_row) - 1, size - 1)
         IN IF ColsQueue_add_panics(s.cols_queue, c, score) THEN Panic(s, 302)
            ELSE ReinsertFrom([s EXCEPT !.col_scores[c] = score,
                                        !.cols_queue = ColsQueue_add(@, c, score)],
                              k + 1)

\* A re-installation of pivot_r that returns no column to the queue.
ReinsertNoAdd(s) ==
    IF Len(s.pivot_row) = 0 THEN s
    ELSE [s EXCEPT !.rows[s.pivot_r] = s.pivot_row,
                   !.is_absorbed_row[s.pivot_r] = FALSE]

\* Lines 295-304.
Reinsert(s) ==
    IF Len(s.pivot_row) = 0 THEN s
    ELSE ReinsertFrom([s EXCEPT !.rows[s.pivot_r] = s.pivot_row,
                                !.is_absorbed_row[s.pivot_r] = FALSE], 1)

\* Lines 195-222: the loop is entered; the pivot column and the pivot row.
ColamdPivot ==
    /\ pc = "colamd_loop"
    /\ cols_queue.len > 0
    /\ ColamdStore(Pivot(ColamdState), "colamd_diffs")
    /\ num_iters' = num_iters + 1
    /\ UNCHANGED <<inputVars, queueVars, orig2new, matchVars, blockVars>>

\* Lines 224-244: the row set differences, with aggressive absorption.
ColamdDiffs ==
    /\ pc = "colamd_diffs"
    /\ ColamdStore(DiffsFrom(ColamdState, 1), "colamd_update")
    /\ UNCHANGED <<inputVars, queueVars, orig2new, num_iters, matchVars, blockVars>>

\* Lines 246-290: the columns of the pivot row leave the queue and are mass
\* eliminated or given their intermediate score; the scratch is cleared.
ColamdUpdate ==
    /\ pc = "colamd_update"
    /\ ColamdStore(ClearDiffs(UpdateFrom(ColamdState, <<>>, 1)), "colamd_reinsert")
    /\ UNCHANGED <<inputVars, queueVars, orig2new, num_iters, matchVars, blockVars>>

\* Lines 294-304: the pivot row is stored under pivot_r and its columns
\* return to the queue with their final scores.
ColamdReinsert ==
    /\ pc = "colamd_reinsert"
    /\ ColamdStore(Reinsert(ColamdState), "colamd_loop")
    /\ UNCHANGED <<inputVars, queueVars, orig2new, num_iters, matchVars, blockVars>>

\* Lines 312-317: the loop is left; orig2new and the returned Perm.
ColamdReturn ==
    /\ pc = "colamd_loop"
    /\ cols_queue.len = 0
    /\ orig2new' = Invert(new2orig, size)
    /\ pc' = "done"
    /\ UNCHANGED <<inputVars, queueVars, cols_queue, new2orig, colamdVars, matchVars, blockVars>>

ColamdNext ==
    \/ ColamdGather
    \/ ColamdSingletons
    \/ ColamdDenseRows
    \/ ColamdDenseCols
    \/ ColamdScores
    \/ ColamdPivot
    \/ ColamdDiffs
    \/ ColamdUpdate
    \/ ColamdReinsert
    \/ ColamdReturn

SpecColamd == ColamdInit /\ [][ColamdNext]_vars

(***************************************************************************)
(* Properties of order_colamd                                              *)
(***************************************************************************)
\* The preconditions of the interface: every row index is in [0, size) and
\* no row is repeated within a column.
ValidInput ==
    \A c \in Idx(size) :
        /\ SeqToSet(get_col[c]) \subseteq Idx(size)
        /\ \A j, k \in 1 .. Len(get_col[c]) : get_col[c][j] = get_col[c][k] => j = k

\* C1: on every input that satisfies the preconditions order_colamd returns
\* normally, and what it returns is a pair of inverse permutations of
\* [0, size).
C1_ReturnsInversePerms ==
    ValidInput =>
        /\ pc # "panic"
        /\ pc = "done" => InversePerms

\* col(i) = {i, i+1} for i < size-1 and col(size-1) = {size-1}.
IsLowerBidiagonal ==
    \A c \in Idx(size) : get_col[c] = IF c < size - 1 THEN <<c, c + 1>> ELSE <<c>>

\* C9: on the lower bidiagonal pattern every column is ordered when the
\* singleton phases end, the elimination loop never runs an iteration, and
\* new2orig = [0, 1, ..., size-1].
C9_BidiagonalBySingletonsOnly ==
    IsLowerBidiagonal =>
        /\ pc # "panic"
        /\ num_iters = 0
        /\ pc = "colamd_dense_rows" => cur_ordered_col = size
        /\ pc = "done" => new2orig = [i \in Idx(size) |-> i]

\* The positions of order_colamd after its entry.
ColamdPositions ==
    {"colamd_singletons", "colamd_dense_rows", "colamd_dense_cols", "colamd_scores",
     "colamd_loop", "colamd_diffs", "colamd_update", "colamd_reinsert", "done", "panic"}

\* Control moves on from every position but the return and the panic.  Each
\* step of ColamdNext changes pc, so on the behaviours of SpecColamd this
\* step is enabled, and taken, exactly when a step of ColamdNext is.
ColamdAdvances ==
    /\ pc \notin {"done", "panic"}
    /\ pc' \in ColamdPositions

\* order_colamd is sequential code: it is never suspended for ever between
\* two of its steps.
SpecColamdLive == ColamdInit /\ [][ColamdNext]_vars /\ WF_pc(ColamdAdvances)

(***************************************************************************)
(* Properties of ColsQueue                                                 *)
(***************************************************************************)
\* C11: min_score is never greater than the score of a queued key; pop_min
\* on a non-empty queue returns a key of least score; pop_min calls with no
\* add in between return keys in non-decreasing score order.
C11_PopMinReturnsMinimum ==
    /\ pc = "queue" =>
          \A k \in 1 .. Len(q_keys) : cols_queue.min_score <= q_keys[k].score
    /\ q_last.op = "pop" /\ q_last.min_before # None =>
          /\ pc # "panic"
          /\ q_last.col # None
          /\ q_last.score = q_last.min_before
    /\ q_last.op = "pop" /\ q_last.col # None /\ q_last.prev_pop # None =>
          q_last.prev_pop <= q_last.score

\* Two pops with no add in between returned keys of different scores while
\* min_score was stale, and a key is still queued.
C11_Witness ==
    /\ pc = "queue"
    /\ q_last.op = "pop"
    /\ q_last.prev_pop # None
    /\ q_last.prev_pop < q_last.score
    /\ q_keys # <<>>

\* C12: add(c, s) with s = num_cols stores the key in a bucket of a queue
\* made by new(num_cols).
C12_AcceptsScoreNumCols ==
    q_last.op = "add" /\ q_last.score = size =>
        /\ pc # "panic"
        /\ q_last.col \in QueuedCols
        /\ cols_queue.score2head[size] # None

\* C13: among the queued keys of least score pop_min returns the one that
\* was added earliest, whatever was removed before.
C13_BucketIsFifo ==
    q_last.op = "pop" /\ q_last.first_min # None =>
        /\ pc # "panic"
        /\ q_last.col = q_last.first_min

\* pop_min returned the older of two keys of one bucket although the key
\* that stays queued has the smaller index.
C13_Witness ==
    /\ pc = "queue"
    /\ q_last.op = "pop"
    /\ q_last.col # None
    /\ \E k \in 1 .. Len(q_keys) :
          /\ q_keys[k].score = q_last.score
          /\ q_keys[k].col < q_last.col

(***************************************************************************)
(* The columns held by a ColsQueue, read from its circular lists           *)
(***************************************************************************)
\* The list that starts at `head`, from `c` on, following next; a list is
\* never longer than the number of keys.
RECURSIVE BucketFrom(_, _, _, _)
BucketFrom(q, head, c, fuel) ==
    IF fuel = 0 THEN <<>>
    ELSE <<c>> \o (IF q.next[c] = head THEN <<>>
                   ELSE BucketFrom(q, head, q.next[c], fuel - 1))

\* The keys of bucket s, head first.
BucketCols(q, s) ==
    IF q.score2head[s] = None THEN <<>>
    ELSE BucketFrom(q, q.score2head[s], q.score2head[s], VecLen(q.next))

QueueMembers(q) == UNION { SeqToSet(BucketCols(q, s)) : s \in DOMAIN q.score2head }

Unordered == { c \in DOMAIN is_ordered_col : ~is_ordered_col[c] }

NoDuplicates(seq) == \A j, k \in 1 .. Len(seq) : seq[j] = seq[k] => j = k

\* The positions of order_colamd at which the elimination loop is running.
InLoop == pc \in {"colamd_loop", "colamd_diffs", "colamd_update", "colamd_reinsert"}

\* The rows of column c that are not absorbed.
LiveRowsOf(c) == { r \in SeqToSet(get_col[c]) : ~is_absorbed_row[r] }

(***************************************************************************)
(* Properties of the elimination of order_colamd                           *)
(***************************************************************************)
\* C14: no column is both queued and marked ordered; at the head of every
\* loop iteration the queued columns are exactly the unordered ones; every
\* column of the pivot row is queued when its remove is issued.
C14_QueuedIffUnordered ==
    /\ \A c \in QueueMembers(cols_queue) : ~is_ordered_col[c]
    /\ pc = "colamd_loop" => QueueMembers(cols_queue) = Unordered
    /\ pc \in {"colamd_diffs", "colamd_update"} =>
          /\ NoDuplicates(pivot_row)
          /\ SeqToSet(pivot_row) \subseteq QueueMembers(cols_queue)
    /\ panic_line # 251

\* A second iteration starts with a column back in the queue.
C14_Witness ==
    /\ pc = "colamd_loop"
    /\ num_iters >= 1
    /\ pivot_row # <<>>
    /\ SeqToSet(pivot_row) \subseteq QueueMembers(cols_queue)

\* C15: from the initial scores on, a queued column c sits in the bucket
\* col_scores[c].
C15_ScoreIsBucket ==
    InLoop \/ pc = "done" =>
        \A sc \in DOMAIN cols_queue.score2head :
            \A c \in SeqToSet(BucketCols(cols_queue, sc)) : col_scores[c] = sc

\* A column of the pivot row is back in the queue with a final score that
\* differs from the intermediate one.
C15_Witness ==
    /\ pc = "colamd_loop"
    /\ num_iters >= 1
    /\ Len(pivot_row) >= 2
    /\ \E c \in SeqToSet(pivot_row) :
          c \in SeqToSet(BucketCols(cols_queue, col_scores[c]))

\* C16: at the head of every loop iteration and at loop exit every column
\* listed in cols(r) of a live row r is unordered and queued.
C16_LiveRowsListQueuedCols ==
    pc \in {"colamd_loop", "done"} =>
        \A r \in Idx(size) : ~is_absorbed_row[r] =>
            \A c \in SeqToSet(rows[r]) :
                ~is_ordered_col[c] /\ c \in QueueMembers(cols_queue)

\* C17: when Phase B ends no unordered column has exactly one live row.
C17_SingletonsCascade ==
    pc = "colamd_dense_rows" =>
        \A c \in Unordered : Cardinality(LiveRowsOf(c)) # 1

\* C18: when the set-difference pass ends, the counter of every row it
\* touched is the number of columns of cols(r) outside pivot_row, no
\* decrement went below 0, and a touched row is absorbed exactly when all
\* its columns are in pivot_row.
C18_RowSetDiffs ==
    /\ panic_line # 237
    /\ pc = "colamd_update" =>
          \A r \in SeqToSet(rows_with_diffs) :
              /\ row_set_diffs[r] =
                     Cardinality({ k \in 1 .. Len(rows[r]) :
                                     rows[r][k] \notin SeqToSet(pivot_row) })
              /\ is_absorbed_row[r] <=> SeqToSet(rows[r]) \subseteq SeqToSet(pivot_row)

\* The pass touched a row that stays live and a row that it absorbed.
C18_Witness ==
    /\ pc = "colamd_update"
    /\ \E r \in SeqToSet(rows_with_diffs) : row_set_diffs[r] > 0
    /\ \E r \in SeqToSet(rows_with_diffs) : is_absorbed_row[r]

\* C20: pivot_r.unwrap() never fails: at the head of every loop iteration
\* every queued column has a live row in cols[c].rows.
C20_PivotHasLiveRow ==
    /\ panic_line # 217
    /\ pc = "colamd_loop" =>
          \A c \in QueueMembers(cols_queue) :
              \E k \in 1 .. Len(cols[c]) : ~is_absorbed_row[cols[c][k]]

\* A later iteration has popped its pivot and found a live row in it, while
\* a column of an earlier pivot row was mass eliminated.
C20_Witness ==
    /\ pc = "colamd_diffs"
    /\ num_iters >= 2
    /\ pivot_r # None
    /\ cur_ordered_col > num_iters

\* C19: the elimination loop ends: each iteration orders at least its pivot
\* column, no column is ever un-ordered, and when the loop is left every
\* column of [0, size) is in new2orig exactly once.
C19_LoopTerminates ==
    /\ [][pc = "colamd_loop" /\ pc' = "colamd_diffs" =>
             /\ cur_ordered_col' > cur_ordered_col
             /\ is_ordered_col'[pivot_c']]_vars
    /\ [][\A c \in DOMAIN is_ordered_col : is_ordered_col[c] => is_ordered_col'[c]]_vars
    /\ [](pc = "done" =>
             /\ DOMAIN new2orig = Idx(size)
             /\ \A c \in Idx(size) :
                   Cardinality({ k \in Idx(size) : new2orig[k] = c }) = 1)
    /\ (pc = "colamd_loop") ~> (pc = "done")

\* The loop was left after three iterations or more.
C19_Witness ==
    /\ pc = "done"
    /\ num_iters >= 3
    /\ cur_ordered_col = size

(***************************************************************************)
(* The partial matching of find_diag_matching                              *)
(***************************************************************************)
\* The columns that some row is matched to.
MatchedCols == { row2matched_col[r] : r \in DOMAIN row2matched_col } \ {SENTINEL}

\* C21: after every successful iteration the matched rows are a matching of
\* exactly the columns below the next start_c, along nonzeros; every row of
\* col(c) at an index below cheap[c] is matched; a matched row stays
\* matched and cheap never decreases; the scan never indexes
\* col2visited_on_iter with SENTINEL.
C21_PartialMatchingGrows ==
    /\ [](pc # "panic")
    /\ [](pc = "match_loop" =>
             /\ MatchedCols = Idx(start_c)
             /\ \A c \in Idx(start_c) :
                   Cardinality({ r \in Idx(size) : row2matched_col[r] = c }) = 1
             /\ \A r \in Idx(size) :
                   row2matched_col[r] # SENTINEL =>
                       r \in SeqToSet(get_col[row2matched_col[r]])
             /\ \A c \in Idx(size) :
                   /\ cheap[c] <= Len(get_col[c])
                   /\ \A k \in 1 .. cheap[c] :
                         row2matched_col[get_col[c][k]] # SENTINEL)
    /\ [][\A r \in DOMAIN row2matched_col :
             row2matched_col[r] # SENTINEL => row2matched_col'[r] # SENTINEL]_vars
    /\ [][\A c \in DOMAIN cheap : cheap'[c] >= cheap[c]]_vars

\* Two iterations succeeded: one column was matched on an augmenting path
\* after its cheap pointer ran to the end of the column, another one took
\* the row under its cheap pointer after stepping over matched rows.
C21_Witness ==
    /\ pc = "match_loop"
    /\ start_c >= 2
    /\ \E c \in Idx(start_c) :
          /\ cheap[c] = Len(get_col[c])
          /\ \E r \in Idx(size) : row2matched_col[r] = c
    /\ \E c \in Idx(start_c) :
          /\ cheap[c] >= 1
          /\ cheap[c] < Len(get_col[c])
          /\ row2matched_col[get_col[c][cheap[c] + 1]] = c

====
